---- MODULE Spec2Model ----
(***************************************************************************)
(* Model of the Open/Closed example (src/OpenClosedPrinciple/              *)
(* OpenClosed.cpp, lines 1-298): Product, Specification<T> and its leaf    *)
(* and conjunction variants, the three ways of building a conjunction,     *)
(* and BetterFilter::filter.                                               *)
(*                                                                         *)
(* Objects live in automatic storage, as in main(): a named object is      *)
(* alive until main returns; a temporary is destroyed at the end of the    *)
(* full-expression that created it.  A reference is modelled as the index  *)
(* of the referenced object in the store `specs` (its address).  A call    *)
(* through a reference to a destroyed object is undefined behaviour; its   *)
(* outcomes are any boolean result, or abnormal termination.               *)
(***************************************************************************)
EXTENDS Integers, Sequences, FiniteSets, TLC

(* ---------------------------- bounds ----------------------------------- *)

\* most Specification objects (named objects and temporaries) ever constructed
MaxSpecs == 3

\* longest vector of Product pointers the caller passes to filter
MaxItems == 3

(* ------------------------ enums and Product ---------------------------- *)

Color == {"red", "green", "blue"}

Size == {"small", "medium", "large"}

Product(name, color, size) == [name |-> name, color |-> color, size |-> size]

\* the Product objects of main(); a Product* is the index of the object
MainProducts ==
    << Product("Apple", "green", "small"),
       Product("Tree", "green", "large"),
       Product("House", "blue", "large") >>

ProductPtr == DOMAIN MainProducts

\* every vector of Product pointers of length at most n (repeats allowed)
ItemVectors(n) == UNION { [1..k -> ProductPtr] : k \in 0..n }

(* --------------------- Specification objects --------------------------- *)

\* value of a field an object of that dynamic type does not have
None == "none"

\* a null reference field (leaf objects have no operands)
NoRef == 0

\* ColorSpecification::ColorSpecification(Color color) : color{color}
ColorSpecification(color) ==
    [kind |-> "color", color |-> color, size |-> None,
     first |-> NoRef, second |-> NoRef, via |-> "ctor", alive |-> TRUE]

\* SizeSpecification::SizeSpecification(Size size) : size(size)
SizeSpecification(size) ==
    [kind |-> "size", color |-> None, size |-> size,
     first |-> NoRef, second |-> NoRef, via |-> "ctor", alive |-> TRUE]

\* AndSpecification(Specification<T> &first, Specification<T> &second)
\*     : first(first), second(second)
\* `via` is a ghost field: which construction path produced the object.
AndSpecification(first, second, via) ==
    [kind |-> "and", color |-> None, size |-> None,
     first |-> first, second |-> second, via |-> via, alive |-> TRUE]

\* the leaf specifications a caller can construct
LeafSpecs == { ColorSpecification(c) : c \in Color } \cup
             { SizeSpecification(s) : s \in Size }

\* the prvalues a caller can write as right operand of &&, given the named
\* objects at the addresses in named:  ColorSpecification(c),
\* SizeSpecification(s),  or  (b && c)  with the free operator&&
Temporaries(named) ==
    LeafSpecs \cup { AndSpecification(b, c, "free") : b \in named, c \in named }

\* end of lifetime of an object: the storage stays, the object is gone
Destroyed(obj) == [obj EXCEPT !.alive = FALSE]

VARIABLES
    products,   \* the Product objects, by address
    items,      \* the caller's std::vector<Product *>
    specs,      \* every Specification object constructed so far, by address
    call,       \* the last completed BetterFilter::filter call
    crashed     \* the program terminated abnormally (undefined behaviour)

\* the variables of the Open/Closed example
ocpVars == << products, items, specs, call, crashed >>

(* The file holds three more example programs, each with its own main():   *)
(* Liskov substitution (lines 299-416), single responsibility (417-529)    *)
(* and dependency inversion (530-709).  Each program has its own           *)
(* variables and its own specification; a program that is not the one a    *)
(* specification runs stays as it is before its main() starts.             *)
VARIABLES
    rect,       \* the Rectangle or Square object handed to process
    lastSet,    \* the last constructor or setter call on rect and its argument
    proc,       \* the last completed process(Rectangle &) call
    relations,  \* Relationships::relations
    calls,      \* the addParentAndChild calls made so far, in order
    found,      \* the last completed findAllChildrenOf call
    journal,    \* the Journal object
    count       \* the static int count of Journal::add_entry

lspVars == << rect, lastSet, proc >>

dipVars == << relations, calls, found >>

srpVars == << journal, count >>

vars == << ocpVars, lspVars, dipVars, srpVars >>

\* no Rectangle constructed, no process call made
NoRectangle == [type |-> "none", width |-> 0, height |-> 0]

NoSet == [by |-> "none", arg |-> 0]

NoProcess == [done |-> FALSE, w |-> 0, expected |-> 0, got |-> 0]

LspIdle == rect = NoRectangle /\ lastSet = NoSet /\ proc = NoProcess

\* Relationships relationships;  and no query made
NoFind == [done |-> FALSE, name |-> "", at |-> 0, result |-> << >>, names |-> << >>]

DipIdle == relations = << >> /\ calls = << >> /\ found = NoFind

\* no Journal constructed;  static int count{1};
NoJournal == [constructed |-> FALSE, arg |-> "", title |-> "", entries |-> << >>]

SrpIdle == journal = NoJournal /\ count = 1

\* before the main() of the Open/Closed example has constructed a specification
OcpIdle ==
    /\ products = MainProducts
    /\ items = << >>
    /\ specs = << >>
    /\ call = [spec |-> NoRef, sat |-> << >>, result |-> << >>]
    /\ crashed = FALSE

\* addresses of the objects that are alive (all of them are named variables)
Live(st) == { a \in DOMAIN st : st[a].alive }

(* ------------------------- is_satisfied -------------------------------- *)

\* a slip: return item->color != color;
ColorSpecification_is_satisfied_ne(self, item) == item.color # self.color

\* ColorSpecification::is_satisfied: return item->color == color;
ColorSpecification_is_satisfied(self, item) == item.color = self.color

\* SizeSpecification::is_satisfied: return item->size == size;
SizeSpecification_is_satisfied(self, item) == item.size = self.size

\* a slip: return first.is_satisfied(item) || second.is_satisfied(item);
AndSpecification_is_satisfied_or(f, s) ==
    { r \in {TRUE} : TRUE \in f } \cup (IF FALSE \in f THEN s ELSE {})

\* a slip: return first.is_satisfied(item) && !second.is_satisfied(item);
AndSpecification_is_satisfied_andnot(f, s) ==
    { r \in {FALSE} : FALSE \in f } \cup (IF TRUE \in f THEN { ~v : v \in s } ELSE {})

\* AndSpecification::is_satisfied:
\*     return first.is_satisfied(item) && second.is_satisfied(item);
\* f and s are the sets of values the two calls can return; second is only
\* called when first returned true (short-circuit &&).
AndSpecification_is_satisfied(f, s) ==
    { r \in {FALSE} : FALSE \in f } \cup (IF TRUE \in f THEN s ELSE {})

\* The values the virtual call st[a].is_satisfied(item) can return.
\* A destroyed object has no defined result: any boolean.
RECURSIVE is_satisfied(_, _, _, _)
is_satisfied(st, ps, a, x) ==
    IF ~st[a].alive THEN BOOLEAN
    ELSE IF st[a].kind = "color" THEN { ColorSpecification_is_satisfied(st[a], ps[x]) }
    ELSE IF st[a].kind = "size" THEN { SizeSpecification_is_satisfied(st[a], ps[x]) }
    ELSE AndSpecification_is_satisfied(is_satisfied(st, ps, st[a].first, x),
                                       is_satisfied(st, ps, st[a].second, x))

\* The call st[a].is_satisfied(item) can use a destroyed object
\* (undefined behaviour: also abnormal termination is possible).
RECURSIVE UsesDestroyed(_, _, _, _)
UsesDestroyed(st, ps, a, x) ==
    IF ~st[a].alive THEN TRUE
    ELSE IF st[a].kind = "and"
    THEN \/ UsesDestroyed(st, ps, st[a].first, x)
         \/ /\ TRUE \in is_satisfied(st, ps, st[a].first, x)
            /\ UsesDestroyed(st, ps, st[a].second, x)
    ELSE FALSE

(* ------------------------------ filter --------------------------------- *)

\* a slip: if (!spec.is_satisfied(item)) result.push_back(item);
RECURSIVE FilterLoop_negated(_, _, _)
FilterLoop_negated(its, sat, i) ==
    IF i > Len(its) THEN << >>
    ELSE (IF ~sat[i] THEN << its[i] >> ELSE << >>) \o FilterLoop_negated(its, sat, i + 1)

\* a slip: result.insert(result.begin(), item);
RECURSIVE FilterLoop_front(_, _, _)
FilterLoop_front(its, sat, i) ==
    IF i > Len(its) THEN << >>
    ELSE FilterLoop_front(its, sat, i + 1) \o (IF sat[i] THEN << its[i] >> ELSE << >>)

\* a slip: the loop stops one element early
RECURSIVE FilterLoop_short(_, _, _)
FilterLoop_short(its, sat, i) ==
    IF i >= Len(its) THEN << >>
    ELSE (IF sat[i] THEN << its[i] >> ELSE << >>) \o FilterLoop_short(its, sat, i + 1)

\* the loop of BetterFilter::filter over its by-value parameter `its`:
\*     for (auto &item : items) if (spec.is_satisfied(item)) result.push_back(item);
\* sat[i] is what spec.is_satisfied returned for the i-th element.
RECURSIVE FilterLoop(_, _, _)
FilterLoop(its, sat, i) ==
    IF i > Len(its) THEN << >>
    ELSE (IF sat[i] THEN << its[i] >> ELSE << >>) \o FilterLoop(its, sat, i + 1)

\* the verdict vectors the calls of one filter run can produce
Verdicts(st, ps, its, a) ==
    { sat \in [1..Len(its) -> BOOLEAN] :
        \A i \in 1..Len(its) : sat[i] \in is_satisfied(st, ps, a, its[i]) }

NoCall == [spec |-> NoRef, sat |-> << >>, result |-> << >>]

(* ----------------------------- actions --------------------------------- *)

Init ==
    /\ products = MainProducts
    /\ items \in ItemVectors(MaxItems)
    /\ specs = << >>
    /\ call = NoCall
    /\ crashed = FALSE
    /\ LspIdle /\ DipIdle /\ SrpIdle

\* ColorSpecification green(Color::green);
NewColorSpecification(c) ==
    /\ ~crashed
    /\ Len(specs) < MaxSpecs
    /\ specs' = Append(specs, ColorSpecification(c))
    /\ UNCHANGED << products, items, call, crashed >>
    /\ UNCHANGED << lspVars, dipVars, srpVars >>

\* SizeSpecification large(Size::large);
NewSizeSpecification(s) ==
    /\ ~crashed
    /\ Len(specs) < MaxSpecs
    /\ specs' = Append(specs, SizeSpecification(s))
    /\ UNCHANGED << products, items, call, crashed >>
    /\ UNCHANGED << lspVars, dipVars, srpVars >>

\* AndSpecification<Product> green_and_large(green, large);
NewAndSpecification(a, b) ==
    /\ ~crashed
    /\ Len(specs) < MaxSpecs
    /\ specs' = Append(specs, AndSpecification(a, b, "ctor"))
    /\ UNCHANGED << products, items, call, crashed >>
    /\ UNCHANGED << lspVars, dipVars, srpVars >>

\* auto spec = green && large;     (free operator&&: return {first, second};)
OperatorAndFree(a, b) ==
    /\ ~crashed
    /\ Len(specs) < MaxSpecs
    /\ specs' = Append(specs, AndSpecification(a, b, "free"))
    /\ UNCHANGED << products, items, call, crashed >>
    /\ UNCHANGED << lspVars, dipVars, srpVars >>

\* auto spec = green && SizeSpecification(Size::large);
\* auto spec = green && (large && blue);
\* The second operand is an rvalue, so only the member operator&& is viable:
\*     return AndSpecification<T>(*this, other);
\* The temporary is constructed first and destroyed at the end of the
\* declaration; the conjunction keeps its reference.
OperatorAndMember(a, tmp) ==
    /\ ~crashed
    /\ Len(specs) + 1 < MaxSpecs
    /\ LET t == Len(specs) + 1
           built == Append(Append(specs, tmp), AndSpecification(a, t, "member"))
       IN  specs' = [built EXCEPT ![t] = Destroyed(built[t])]
    /\ UNCHANGED << products, items, call, crashed >>
    /\ UNCHANGED << lspVars, dipVars, srpVars >>

\* a slip: filter takes the vector by reference and erases what does not match
filter_erasing(a) ==
    /\ ~crashed
    /\ \E sat \in Verdicts(specs, products, items, a) :
          /\ call' = [spec |-> a, sat |-> sat, result |-> FilterLoop(items, sat, 1)]
          /\ items' = FilterLoop(items, sat, 1)
    /\ UNCHANGED << products, specs, crashed >>
    /\ UNCHANGED << lspVars, dipVars, srpVars >>

\* bf.filter(items, spec) returns
filter(a) ==
    /\ ~crashed
    /\ \E sat \in Verdicts(specs, products, items, a) :
          call' = [spec |-> a, sat |-> sat, result |-> FilterLoop(items, sat, 1)]
    /\ UNCHANGED << products, items, specs, crashed >>
    /\ UNCHANGED << lspVars, dipVars, srpVars >>

\* bf.filter(items, spec) reaches a destroyed object and the program dies
FilterCrash(a) ==
    /\ ~crashed
    /\ \E i \in 1..Len(items) : UsesDestroyed(specs, products, a, items[i])
    /\ crashed' = TRUE
    /\ UNCHANGED << products, items, specs, call >>
    /\ UNCHANGED << lspVars, dipVars, srpVars >>

Next ==
    \/ \E c \in Color : NewColorSpecification(c)
    \/ \E s \in Size : NewSizeSpecification(s)
    \/ \E a, b \in Live(specs) : NewAndSpecification(a, b)
    \/ \E a, b \in Live(specs) : OperatorAndFree(a, b)
    \/ \E a \in Live(specs), tmp \in Temporaries(Live(specs)) : OperatorAndMember(a, tmp)
    \/ \E a \in Live(specs) : filter(a)
    \/ \E a \in Live(specs) : FilterCrash(a)

Spec == Init /\ [][Next]_vars

TypeOK ==
    /\ products = MainProducts
    /\ items \in DOMAIN [v \in ItemVectors(MaxItems) |-> v]
    /\ \A a \in DOMAIN specs :
         /\ specs[a].kind \in {"color", "size", "and"}
         /\ specs[a].kind = "and" =>
              specs[a].first \in 1..(a - 1) /\ specs[a].second \in 1..(a - 1)
    /\ crashed \in BOOLEAN

(* ------------- nested conjunctions over three leaves ------------------- *)

\* conjunction objects constructed on top of the three leaves
MaxNest == 2

\* longest vector passed to filter when nesting is explored
MaxNestItems == 2

\* ColorSpecification p(c); SizeSpecification q(s); ColorSpecification r(d);
NestLeaves ==
    { << ColorSpecification(c), SizeSpecification(s), ColorSpecification(d) >> :
        c \in Color, s \in Size, d \in Color }

InitNest ==
    /\ products = MainProducts
    /\ items \in ItemVectors(MaxNestItems)
    /\ specs \in NestLeaves
    /\ call = NoCall
    /\ crashed = FALSE
    /\ LspIdle /\ DipIdle /\ SrpIdle

\* AndSpecification<Product> pq(p, q);  AndSpecification<Product> pq_r(pq, r);
NestAndSpecification(a, b) ==
    /\ ~crashed
    /\ Cardinality({ c \in DOMAIN specs : specs[c].kind = "and" }) < MaxNest
    /\ specs' = Append(specs, AndSpecification(a, b, "ctor"))
    /\ UNCHANGED << products, items, call, crashed >>
    /\ UNCHANGED << lspVars, dipVars, srpVars >>

NextNest ==
    \/ \E a, b \in Live(specs) : NestAndSpecification(a, b)
    \/ \E a \in Live(specs) : filter(a)

SpecNest == InitNest /\ [][NextNest]_vars

(* ------------------------- the properties ------------------------------ *)

IsAnd(a) == a \in DOMAIN specs /\ specs[a].kind = "and"

\* number of positions of seq that hold p
Count(seq, p) == Cardinality({ i \in DOMAIN seq : seq[i] = p })

\* a filter call has returned
Returned == call.spec # NoRef

\* the one value an evaluation returns, when it reaches no destroyed object
Sat(a, x) == is_satisfied(specs, products, a, x)

\* C1: for every conjunction object R = AndSpecification(P, Q), however it
\* was built, and every item x: R.is_satisfied(x) is true exactly when
\* P.is_satisfied(x) and Q.is_satisfied(x) are both true (the values R can
\* return are the conjunctions of the values P and Q can return).
C1_AndIsConjunction ==
    \A a \in Live(specs) : \A x \in ProductPtr :
        IsAnd(a) =>
            Sat(a, x) = { p /\ q : p \in Sat(specs[a].first, x),
                                   q \in Sat(specs[a].second, x) }

\* a constructor-built conjunction of a colour and a size leaf that accepts
\* one item, refuses one on its first operand and refuses one on its second
C1_Witness ==
    \E a \in Live(specs) :
        /\ IsAnd(a) /\ specs[a].via = "ctor"
        /\ specs[specs[a].first].kind = "color"
        /\ specs[specs[a].second].kind = "size"
        /\ \E x, y, z \in ProductPtr :
              /\ Sat(a, x) = {TRUE}
              /\ Sat(a, y) = {FALSE} /\ Sat(specs[a].first, y) = {TRUE}
              /\ Sat(a, z) = {FALSE} /\ Sat(specs[a].second, z) = {TRUE}

\* C2: filter(items, spec) returns exactly the matching subset: an element
\* of items is in the result iff spec.is_satisfied returned true for it, each
\* pointer as many times as it matched, nothing added, dropped or duplicated.
C2_FilterReturnsMatchingSubset ==
    Returned =>
        /\ DOMAIN call.sat = DOMAIN items
        /\ \A i \in DOMAIN items : call.sat[i] \in Sat(call.spec, items[i])
        /\ \A p \in ProductPtr :
              Count(call.result, p) =
                  Cardinality({ i \in DOMAIN items : items[i] = p /\ call.sat[i] })

\* a call over a vector with a repeated pointer that keeps some and drops some
C2_Witness ==
    /\ Returned
    /\ \E i, j \in DOMAIN items : i # j /\ items[i] = items[j] /\ call.sat[i]
    /\ \E i \in DOMAIN items : ~call.sat[i]
    /\ Len(call.result) = 2

\* C3: the result of filter is the matched elements in their input order:
\* it is the input restricted to the matched positions, taken left to right.
C3_FilterStable ==
    Returned =>
        \E f \in [DOMAIN call.result -> DOMAIN items] :
            /\ \A k \in DOMAIN call.result :
                  call.result[k] = items[f[k]] /\ call.sat[f[k]]
            /\ \A k, l \in DOMAIN call.result : k < l => f[k] < f[l]

\* a call that returned two different elements
C3_Witness ==
    /\ Returned
    /\ Len(call.result) >= 2
    /\ call.result[1] # call.result[2]

\* every object the evaluation of a can reach is alive
RECURSIVE OperandsAlive(_, _)
OperandsAlive(st, a) ==
    /\ st[a].alive
    /\ st[a].kind = "and" => OperandsAlive(st, st[a].first) /\ OperandsAlive(st, st[a].second)

\* C4 (as claimed): whenever filter has evaluated a specification, every
\* operand a conjunction in it references was alive.
C4_OperandsOutliveConjunction ==
    Returned => OperandsAlive(specs, call.spec)

\* C4, for the paths that take lvalues: a conjunction built by the
\* constructor or by the free operator&& references live objects only.
C4_LvaluePathsSafe ==
    \A a \in Live(specs) :
        (IsAnd(a) /\ specs[a].via \in {"ctor", "free"}) =>
            specs[specs[a].first].alive /\ specs[specs[a].second].alive

\* the store after  AndSpecification<Product> pq(p, q);  AndSpecification<Product> l(pq, r);
\* the outer conjunction is the last object
LeftNest(st, p, q, r) ==
    Append(Append(st, AndSpecification(p, q, "ctor")),
           AndSpecification(Len(st) + 1, r, "ctor"))

\* the store after  AndSpecification<Product> qr(q, r);  AndSpecification<Product> l(p, qr);
RightNest(st, p, q, r) ==
    Append(Append(st, AndSpecification(q, r, "ctor")),
           AndSpecification(p, Len(st) + 1, "ctor"))

\* the results filter can return for the vector its and the object a of st
FilterResults(st, its, a) ==
    { FilterLoop(its, sat, 1) : sat \in Verdicts(st, products, its, a) }

\* a is (P AND Q) AND R; the store with P AND (Q AND R) constructed as well
Renested(a) ==
    IF IsAnd(specs[a].first)
    THEN RightNest(specs, specs[specs[a].first].first,
                   specs[specs[a].first].second, specs[a].second)
    ELSE LeftNest(specs, specs[a].first,
                  specs[specs[a].second].first, specs[specs[a].second].second)

\* C5: conjunction is associative.  Every constructed nested conjunction,
\* (P AND Q) AND R or P AND (Q AND R), returns on every item x the value the
\* other nesting of the same P, Q, R returns, and the two nestings give the
\* same filter result on the caller's vector.
C5_Associative ==
    \A a \in Live(specs) :
        (IsAnd(a) /\ (IsAnd(specs[a].first) \/ IsAnd(specs[a].second))) =>
            LET n == Renested(a)
            IN  /\ \A x \in ProductPtr : Sat(a, x) = is_satisfied(n, products, Len(n), x)
                /\ FilterResults(specs, items, a) = FilterResults(n, items, Len(n))

\* filter has run on a constructed (P AND Q) AND R over three different leaf
\* objects, kept an element and dropped one that P AND Q accepts
C5_Witness ==
    /\ Returned
    /\ IsAnd(call.spec) /\ IsAnd(specs[call.spec].first)
    /\ LET pq == specs[call.spec].first
           p == specs[pq].first
           q == specs[pq].second
           r == specs[call.spec].second
       IN  /\ Cardinality({p, q, r}) = 3
           /\ \A o \in {p, q, r} : ~IsAnd(o)
           /\ call.result # << >>
           /\ \E i \in DOMAIN items : ~call.sat[i] /\ Sat(pq, items[i]) = {TRUE}

\* C6: filter does not mutate its inputs: a step in which filter returns
\* leaves the caller's vector, every Product and every specification object
\* (leaf parameters, conjunction operands) as they were before the call.
C6_FilterDoesNotMutate ==
    [][ (\E a \in Live(specs) : filter(a)) =>
            (items' = items /\ products' = products /\ specs' = specs) ]_vars

\* filter has run with a conjunction and dropped some but not all elements
C6_Witness ==
    /\ Returned
    /\ IsAnd(call.spec)
    /\ call.result # << >>
    /\ Len(call.result) < Len(items)

\* spec.is_satisfied returns v for every element of the caller's vector
Always(a, v) == \A i \in DOMAIN items : Sat(a, items[i]) = {v}

\* C7: degenerate cases of filter: an empty input gives an empty output; a
\* predicate true for every item gives the input unchanged; a predicate false
\* for every item gives an empty output.
C7_DegenerateCases ==
    Returned =>
        /\ items = << >> => call.result = << >>
        /\ Always(call.spec, TRUE) => call.result = items
        /\ Always(call.spec, FALSE) => call.result = << >>

\* filter has run with an always-true conjunction over a vector of two or more
C7_Witness ==
    /\ Returned
    /\ Len(items) >= 2
    /\ IsAnd(call.spec)
    /\ Always(call.spec, TRUE)
    /\ call.result = items

\* the leaf objects below a
RECURSIVE Leaves(_, _)
Leaves(st, a) ==
    IF st[a].kind = "and" THEN Leaves(st, st[a].first) \cup Leaves(st, st[a].second)
    ELSE {a}

\* item x has the colour or size every live leaf below a was constructed with
MatchesLeaves(a, x) ==
    \A l \in Leaves(specs, a) \cap Live(specs) :
        /\ specs[l].kind = "color" => products[x].color = specs[l].color
        /\ specs[l].kind = "size" => products[x].size = specs[l].size

\* an evaluation of a on x that stays within the lifetime of every operand
Defined(a, x) == ~UsesDestroyed(specs, products, a, x)

\* C8 (as claimed): evaluation is a pure function of the item and the
\* construction parameters.  For every ColorSpecification, SizeSpecification
\* and AndSpecification nested over them, is_satisfied(x) has one value,
\* fixed by x and the parameters of the leaves; filter, which evaluates its
\* predicate once per element, gets that value on every evaluation.
C8_EvaluationPure ==
    /\ \A a \in Live(specs) : \A x \in ProductPtr : Sat(a, x) = { MatchesLeaves(a, x) }
    /\ Returned =>
          \A i \in DOMAIN items : call.sat[i] = MatchesLeaves(call.spec, items[i])

\* C8, for the evaluations that stay within the lifetime of every operand:
\* the value is fixed by the item and the parameters of the leaves.
C8_PureWithinLifetime ==
    /\ \A a \in Live(specs) : \A x \in ProductPtr :
          Defined(a, x) => Sat(a, x) = { MatchesLeaves(a, x) }
    /\ Returned =>
          \A i \in DOMAIN items :
              Defined(call.spec, items[i]) =>
                  call.sat[i] = MatchesLeaves(call.spec, items[i])

\* C8, the frame: no step changes an item, a stored colour or size, or an
\* operand of a conjunction.
C8_NothingWritten ==
    [][ /\ products' = products
        /\ items' = items
        /\ \A a \in DOMAIN specs : a \in DOMAIN specs' /\ specs'[a] = specs[a] ]_vars

\* for the conjunction m that  a && b  produced: the store after
\*     AndSpecification<Product> c(a, b);
\* with b a named object constructed like the right operand of m
ByConstructor(m) ==
    LET b == [specs[specs[m].second] EXCEPT !.alive = TRUE]
    IN  Append(Append(specs, b), AndSpecification(specs[m].first, Len(specs) + 1, "ctor"))

\* C9 (as claimed): the construction paths have identical semantics: a
\* conjunction returned by the free or the member operator&& returns on
\* every item what AndSpecification<T>(a, b) over the same two
\* specifications returns, and gives the same filter result.
C9_PathsAgree ==
    \A m \in Live(specs) :
        (IsAnd(m) /\ specs[m].via # "ctor") =>
            LET c == ByConstructor(m)
            IN  /\ \A x \in ProductPtr : Sat(m, x) = is_satisfied(c, products, Len(c), x)
                /\ (Returned /\ call.spec = m) =>
                      call.result \in FilterResults(c, items, Len(c))

\* C9, for the free operator&& alone
C9_FreeAgrees ==
    \A m \in Live(specs) :
        (IsAnd(m) /\ specs[m].via = "free") =>
            LET c == ByConstructor(m)
            IN  \A x \in ProductPtr : Sat(m, x) = is_satisfied(c, products, Len(c), x)

\* the vector of main(): {&apple, &tree, &house}
MainItems == << 1, 2, 3 >>

\* the names of the products a result points to
Names(result) == [k \in DOMAIN result |-> products[result[k]].name]

\* a is a conjunction, built by the constructor or the free operator&&, of
\* a ColorSpecification(c) and a SizeSpecification(s)
IsColorAndSize(a, c, s) ==
    /\ IsAnd(a)
    /\ specs[a].via \in {"ctor", "free"}
    /\ specs[specs[a].first] = ColorSpecification(c)
    /\ specs[specs[a].second] = SizeSpecification(s)

\* C10: the example of main().  With items = [Apple, Tree, House]: filter
\* with color==green returns [Apple, Tree]; with green AND large returns
\* [Tree], built by the constructor or by operator&&; with blue AND large
\* returns [House].
C10_ExampleScenario ==
    (Returned /\ items = MainItems) =>
        /\ specs[call.spec] = ColorSpecification("green") =>
              Names(call.result) = << "Apple", "Tree" >>
        /\ IsColorAndSize(call.spec, "green", "large") =>
              Names(call.result) = << "Tree" >>
        /\ IsColorAndSize(call.spec, "blue", "large") =>
              Names(call.result) = << "House" >>

\* main()'s   auto spec = green && large;   bf.filter(items, spec)   has returned
C10_Witness ==
    /\ Returned
    /\ items = MainItems
    /\ IsColorAndSize(call.spec, "green", "large")
    /\ specs[call.spec].via = "free"
    /\ Names(call.result) = << "Tree" >>

(***************************************************************************)
(* Liskov substitution example (lines 299-416): Rectangle, Square and      *)
(* process(Rectangle &).  A call through the Rectangle reference is        *)
(* dispatched on the dynamic type of the object.                           *)
(***************************************************************************)

\* largest argument given to a constructor or a setter by the caller
MaxDim == 3

Dims == 0..MaxDim

\* r.set_height(10); in process
ProcessHeight == 10

\* Rectangle(const int width, const int height) : width{width}, height{height}
Rectangle(width, height) == [type |-> "Rectangle", width |-> width, height |-> height]

\* Square(int size) : Rectangle(size, size)
Square(size) == [Rectangle(size, size) EXCEPT !.type = "Square"]

get_width(r) == r.width

get_height(r) == r.height

\* Rectangle::set_width: this->width = width;
Rectangle_set_width(r, width) == [r EXCEPT !.width = width]

\* Rectangle::set_height: this->height = height;
Rectangle_set_height(r, height) == [r EXCEPT !.height = height]

\* Square::set_width: this->width = this->height = width;
Square_set_width(r, width) == [r EXCEPT !.width = width, !.height = width]

\* a slip: the override assigns the height alone
Square_set_height_only(r, height) == [r EXCEPT !.height = height]

\* Square::set_height: this->width = this->height = height;
Square_set_height(r, height) == [r EXCEPT !.width = height, !.height = height]

\* the virtual call r.set_width(width)
set_width(r, width) ==
    IF r.type = "Square" THEN Square_set_width(r, width) ELSE Rectangle_set_width(r, width)

\* the virtual call r.set_height(height)
set_height(r, height) ==
    IF r.type = "Square" THEN Square_set_height(r, height) ELSE Rectangle_set_height(r, height)

\* int area() const { return width * height; }
area(r) == r.width * r.height

\* Rectangle r{w, h};   or   Square sq{size};
InitLSP ==
    /\ OcpIdle /\ DipIdle /\ SrpIdle
    /\ proc = NoProcess
    /\ \/ /\ rect \in { Rectangle(w, h) : w \in Dims, h \in Dims }
          /\ lastSet = NoSet
       \/ \E size \in Dims :
             /\ rect = Square(size)
             /\ lastSet = [by |-> "Square", arg |-> size]

\* r.set_width(width), through a Rectangle reference
SetWidth(width) ==
    /\ rect' = set_width(rect, width)
    /\ lastSet' = [by |-> "set_width", arg |-> width]
    /\ UNCHANGED << proc, ocpVars, dipVars, srpVars >>

\* r.set_height(height), through a Rectangle reference
SetHeight(height) ==
    /\ rect' = set_height(rect, height)
    /\ lastSet' = [by |-> "set_height", arg |-> height]
    /\ UNCHANGED << proc, ocpVars, dipVars, srpVars >>

\* process(r):  int w = r.get_width();  r.set_height(10);
\*              "expected area = " << (w * 10) << ", got " << r.area()
process ==
    LET w == get_width(rect)
        r == set_height(rect, ProcessHeight)
    IN  /\ rect' = r
        /\ lastSet' = [by |-> "set_height", arg |-> ProcessHeight]
        /\ proc' = [done |-> TRUE, w |-> w, expected |-> w * ProcessHeight, got |-> area(r)]
        /\ UNCHANGED << ocpVars, dipVars, srpVars >>

NextLSP ==
    \/ \E width \in Dims : SetWidth(width)
    \/ \E height \in Dims : SetHeight(height)
    \/ process

SpecLSP == InitLSP /\ [][NextLSP]_vars

\* C11 (as claimed): a Rectangle and a Square behave alike in process:
\* set_height(10) leaves the width as it was, so the area obtained is the
\* width before the call times 10, the expected area that process prints.
C11_SubtypeReplaceable ==
    proc.done => proc.got = proc.expected

\* C11, for objects whose dynamic type is Rectangle
C11_RectangleAsExpected ==
    (proc.done /\ rect.type = "Rectangle") => proc.got = proc.expected

\* C14: a Square keeps width equal to height: after Square(size) and after
\* every set_width and set_height call, also through a Rectangle reference
\* (as in process), get_width() = get_height() and both are the argument of
\* the most recent setter call, or size if there was none.
C14_SquareKeepsSides ==
    rect.type = "Square" =>
        /\ get_width(rect) = get_height(rect)
        /\ get_width(rect) = lastSet.arg

\* a Square that went through process and then through set_width with
\* another value than the one it was built with
C14_Witness ==
    /\ rect.type = "Square"
    /\ proc.done /\ proc.w # ProcessHeight
    /\ lastSet.by = "set_width"
    /\ lastSet.arg # proc.w
    /\ get_height(rect) = lastSet.arg

(***************************************************************************)
(* Dependency inversion example (lines 530-709): Person, Relationships     *)
(* and its findAllChildrenOf.  A Person* returned by findAllChildrenOf     *)
(* points at the third component of an element of `relations`; it is       *)
(* modelled as the index of that element.                                  *)
(***************************************************************************)

\* most addParentAndChild calls
MaxCalls == 3

\* the names persons are given (a subset of those of main())
PersonNames == {"John", "Chris", "Matt"}

\* struct Person { std::string_view name; };
Person(name) == [name |-> name]

\* relations.push_back({parent, Relationship::parent, child});
\* relations.push_back({child, Relationship::child, parent});
addParentAndChild(rels, parent, child) ==
    Append(Append(rels, [first |-> parent, rel |-> "parent", second |-> child]),
           [first |-> child, rel |-> "child", second |-> parent])

\* a slip: the kind of relationship is not tested
RECURSIVE FindLoop_any(_, _, _)
FindLoop_any(rels, name, i) ==
    IF i > Len(rels) THEN << >>
    ELSE (IF rels[i].first.name = name THEN << i >> ELSE << >>)
             \o FindLoop_any(rels, name, i + 1)

\* the loop of Relationships::findAllChildrenOf:
\*     for (auto &[first, rel, second] : relations)
\*         if (first.name == name && rel == Relationship::parent)
\*             result.push_back(&second);
RECURSIVE FindLoop(_, _, _)
FindLoop(rels, name, i) ==
    IF i > Len(rels) THEN << >>
    ELSE (IF rels[i].first.name = name /\ rels[i].rel = "parent" THEN << i >> ELSE << >>)
             \o FindLoop(rels, name, i + 1)

\* Relationships relationships;
InitDIP ==
    /\ OcpIdle /\ LspIdle /\ SrpIdle
    /\ relations = << >>
    /\ calls = << >>
    /\ found = NoFind

\* relationships.addParentAndChild(parent, child);
AddParentAndChild(parent, child) ==
    /\ Len(calls) < MaxCalls
    /\ relations' = addParentAndChild(relations, parent, child)
    /\ calls' = Append(calls, [parent |-> parent, child |-> child])
    /\ UNCHANGED << found, ocpVars, lspVars, srpVars >>

\* browser.findAllChildrenOf(name) returns; the caller reads child->name of
\* every pointer of the result (Research::Research)
findAllChildrenOf(name) ==
    /\ LET result == FindLoop(relations, name, 1)
       IN  found' = [done |-> TRUE, name |-> name, at |-> Len(calls), result |-> result,
                     names |-> [k \in DOMAIN result |-> relations[result[k]].second.name]]
    /\ UNCHANGED << relations, calls, ocpVars, lspVars, srpVars >>

NextDIP ==
    \/ \E parent, child \in PersonNames : AddParentAndChild(Person(parent), Person(child))
    \/ \E name \in PersonNames : findAllChildrenOf(name)

SpecDIP == InitDIP /\ [][NextDIP]_vars

\* the positions, in order, of the calls before the query whose parent has
\* the name asked for
CallsOfParent ==
    LET made == 1..found.at
        hit(n) == { j \in made : calls[j].parent.name = found.name /\ j <= n }
        pos == { j \in made : calls[j].parent.name = found.name }
    IN  [k \in 1..Cardinality(pos) |-> CHOOSE j \in pos : Cardinality(hit(j)) = k]

\* what findAllChildrenOf returned: for each addParentAndChild(p, c) with
\* p.name = name, in call order, a pointer to the child of the record that
\* call pushed first, whose name is c.name
C12_ChildrenReturned ==
    found.done =>
        /\ Len(found.result) = Len(CallsOfParent)
        /\ \A k \in DOMAIN found.result :
              /\ found.result[k] = 2 * CallsOfParent[k] - 1
              /\ found.names[k] = calls[CallsOfParent[k]].child.name

\* C12: after any sequence of addParentAndChild calls, findAllChildrenOf(name)
\* returns one pointer for each call addParentAndChild(p, c) with
\* p.name = name, pointing to a Person named c.name, in call order, nothing
\* for calls with another parent and nothing for the mirrored child-to-parent
\* records; and the call leaves relations unchanged.
C12_FindAllChildren ==
    /\ [] C12_ChildrenReturned
    /\ [][ (\E name \in PersonNames : findAllChildrenOf(name)) =>
               relations' = relations ]_vars

\* a query that returned two children of a person who is also recorded as
\* somebody's child, while another person has a child too
C12_Witness ==
    /\ found.done
    /\ Len(found.names) = 2
    /\ \E j \in 1..found.at : calls[j].child.name = found.name
    /\ \E j \in 1..found.at : calls[j].parent.name # found.name

(***************************************************************************)
(* Single responsibility example (lines 417-529): Journal.  The member     *)
(* initializer title(title) copies the member from itself before it has a  *)
(* value, so the title is indeterminate: any string_view value.           *)
(***************************************************************************)

\* most entries added to the journal
MaxEntries == 3

\* the strings a caller passes to the constructor
Titles == {"Dear Diary", "Notes"}

\* the strings a caller passes to add_entry (main())
EntryTexts ==
    {"I ate a bug", "I cried today",
     "I implemented single responsibility design principle"}

\* the values an uninitialized std::string_view can turn out to hold
Indeterminate == Titles \cup {"", "(garbage)"}

Digit == << "0", "1", "2", "3", "4", "5", "6", "7", "8", "9" >>

\* std::to_string(int), for n >= 0: the decimal digits of n
RECURSIVE to_string(_)
to_string(n) ==
    IF n < 10 THEN << Digit[n + 1] >>
    ELSE to_string(n \div 10) \o << Digit[(n % 10) + 1] >>

\* Journal(const std::string &entry) : title(title) { }
\* the parameter is not used; v is the value the self-initialized member has;
\* std::vector<std::string> entries{};
Journal(entry, v) ==
    [constructed |-> TRUE, arg |-> entry, title |-> v, entries |-> << >>]

\* Journal::add_entry:
\*     entries.push_back(std::to_string(count++) + ": " + entry);
\* a string is kept as the sequence of its pieces
add_entry(j, n, entry) ==
    [j EXCEPT !.entries = Append(@, to_string(n) \o << ": ", entry >>)]

InitSRP ==
    /\ OcpIdle /\ LspIdle /\ DipIdle
    /\ journal = NoJournal
    /\ count = 1

\* Journal journal{"Dear Diary"};
NewJournal(entry) ==
    /\ ~journal.constructed
    /\ \E v \in Indeterminate : journal' = Journal(entry, v)
    /\ UNCHANGED << count, ocpVars, lspVars, dipVars >>

\* journal.add_entry("I ate a bug");
AddEntry(entry) ==
    /\ journal.constructed
    /\ Len(journal.entries) < MaxEntries
    /\ journal' = add_entry(journal, count, entry)
    /\ count' = count + 1
    /\ UNCHANGED << ocpVars, lspVars, dipVars >>

NextSRP ==
    \/ \E entry \in Titles : NewJournal(entry)
    \/ \E entry \in EntryTexts : AddEntry(entry)

SpecSRP == InitSRP /\ [][NextSRP]_vars

\* C13 (as claimed): the constructor sets the title: after Journal j{s},
\* j.title equals s, and before the first add_entry j.entries is empty.
C13_ConstructorSetsTitle ==
    journal.constructed =>
        /\ journal.title = journal.arg
        /\ count = 1 => journal.entries = << >>

\* C13, the part that holds: a constructed journal has no entries before
\* the first add_entry, and the k-th entry starts with the number k
C13_EntriesNumbered ==
    journal.constructed =>
        /\ count = 1 => journal.entries = << >>
        /\ \A k \in DOMAIN journal.entries : journal.entries[k][1] = Digit[k + 1]

====
